---- MODULE Spec2Model ----
(***************************************************************************)
(* Model of the Sentinel SDK Soroban contract                              *)
(* (blockchain/contracts/sentinel-sdk/src/{lib,types,crypto}.rs).          *)
(*                                                                         *)
(* Every public entry point of the contract is one action.  A Soroban      *)
(* invocation is atomic: a panic aborts the invocation and the host        *)
(* discards every storage write and every event of that invocation.        *)
(* A caller submits an invocation (Invoke), the host runs the entry point  *)
(* to completion (one action per entry point), and the outcome is handed   *)
(* back to the caller (Return).  Ledgers close between invocations.        *)
(***************************************************************************)
EXTENDS Integers, Sequences, FiniteSets, TLC

VARIABLES
    oracle,     \* instance storage, key symbol_short!("oracle"): Option<PublicKey>
    risk,       \* persistent storage, keyed by Address: Option<RiskState>
    now,        \* env.ledger().timestamp()
    events,     \* events published by the last invocation (empty when it aborted)
    call,       \* the invocation in progress: entry point, arguments, outcome
    prior       \* history: the persistent storage as it was before the last step

vars == <<oracle, risk, now, events, call, prior>>

----------------------------------------------------------------------------
(* Bounds of the model *)

\* largest ledger timestamp the clock is advanced to
MaxTime == 301
\* how far in the future of the ledger clock a submitted timestamp may lie
FutureSkew == 1
\* scores 0..MaxProbeScore are fed to the decision function on its own
MaxProbeScore == 150
\* length of the string form of an address (a Stellar strkey has 56
\* characters; the encoder copies whatever length the host reports)
AddrStrLen == 5
\* scores 0..MaxEncScore are fed to the canonical encoder on its own
MaxEncScore == 11

(* Input sets *)

\* Ed25519 public keys (each stands for a key pair)
Keys == {"K1", "K2"}
\* wallet identities (Address values)
Wallets == {1, 2}
\* risk scores submitted: one per decision, the largest valid score and the
\* smallest invalid one
Scores == {10, 50, 100, 101}
\* steps by which the ledger clock advances between invocations
ClockSteps == {301}

----------------------------------------------------------------------------
(* Option<T> and invocation outcomes *)

None == [tag |-> "None"]
Some(x) == [tag |-> "Some", val |-> x]

Ok(x) == [tag |-> "Ok", val |-> x]
Unit == "()"
Panic(e) == [tag |-> "Panic", err |-> e]

\* the rejections of the contract (panic sites)
AlreadyInitialized == "AlreadyInitialized"
NotInitialized == "NotInitialized"
InvalidSignature == "InvalidSignature"
StalePayload == "StalePayload"
InvalidScore == "InvalidScore"
\* the panic of the last match arm of calculate_decision (same message as
\* InvalidScore, raised in types.rs)
DecisionOutOfRange == "DecisionOutOfRange"

----------------------------------------------------------------------------
(* types.rs *)

Allow == [tag |-> "Allow"]
Limit(max) == [tag |-> "Limit", max |-> max]
Freeze == [tag |-> "Freeze"]

RiskPayload(wallet, risk_score, timestamp) ==
    [wallet |-> wallet, risk_score |-> risk_score, timestamp |-> timestamp]

\* calculate_decision with the first arm written 0..=50
calculate_decision_off_by_one(risk_score) ==
    IF risk_score \in 0..50 THEN Ok(Allow)
    ELSE IF risk_score \in 51..79 THEN Ok(Limit(5000))
    ELSE IF risk_score \in 80..100 THEN Ok(Freeze)
    ELSE Panic(DecisionOutOfRange)

\* calculate_decision with the last range written 81..=100
calculate_decision_freeze_81(risk_score) ==
    IF risk_score \in 0..49 THEN Ok(Allow)
    ELSE IF risk_score \in 50..80 THEN Ok(Limit(5000))
    ELSE IF risk_score \in 81..100 THEN Ok(Freeze)
    ELSE Panic(DecisionOutOfRange)

\* RiskState::calculate_decision: the match on the score; the last arm panics
calculate_decision(risk_score) ==
    IF risk_score \in 0..49 THEN Ok(Allow)
    ELSE IF risk_score \in 50..79 THEN Ok(Limit(5000))
    ELSE IF risk_score \in 80..100 THEN Ok(Freeze)
    ELSE Panic(DecisionOutOfRange)

\* RiskState::from_payload: panics when calculate_decision panics
from_payload(payload) ==
    LET decision == calculate_decision(payload.risk_score)
    IN  IF decision.tag = "Panic" THEN decision
        ELSE Ok([risk_score |-> payload.risk_score,
                 last_updated |-> payload.timestamp,
                 decision |-> decision.val])

----------------------------------------------------------------------------
(* crypto.rs: canonical encoding; Bytes are sequences of byte values *)

\* b"{"  b","  b"\"}"
LBrace == <<123>>
Comma == <<44>>
QuoteRBrace == <<34, 125>>
\* b"\"risk_score\":"
RiskScoreKey == <<34, 114, 105, 115, 107, 95, 115, 99, 111, 114, 101, 34, 58>>
\* b"\"timestamp\":"
TimestampKey == <<34, 116, 105, 109, 101, 115, 116, 97, 109, 112, 34, 58>>
\* b"\"wallet\":\""
WalletKey == <<34, 119, 97, 108, 108, 101, 116, 34, 58, 34>>

\* the digits loop of append_u32_as_bytes / append_u64_as_bytes: the digits
\* of value > 0, most significant first (built in reverse, appended reversed)
RECURSIVE DecimalDigits(_)
DecimalDigits(value) ==
    IF value > 0 THEN DecimalDigits(value \div 10) \o <<48 + (value % 10)>>
    ELSE <<>>

append_u32_as_bytes(bytes, value) ==
    IF value = 0 THEN bytes \o <<48>>
    ELSE bytes \o DecimalDigits(value)

\* append_u64_as_bytes without the branch for value 0
append_u64_as_bytes_no_zero(bytes, value) == bytes \o DecimalDigits(value)

append_u64_as_bytes(bytes, value) ==
    IF value = 0 THEN bytes \o <<48>>
    ELSE bytes \o DecimalDigits(value)


\* Address::to_string of the host: 'G', then 'A's, then a letter per wallet
address_to_string(address) ==
    [i \in 1..AddrStrLen |->
        IF i = 1 THEN 71 ELSE IF i = AddrStrLen THEN 65 + address ELSE 65]

\* String::to_xdr: ScVal tag SCV_STRING, big-endian length, content, padding
\* to a multiple of four bytes
string_to_xdr(str) ==
    LET len == Len(str)
        pad == (4 - (len % 4)) % 4
    IN  <<0, 0, 0, 14>>
        \o <<(len \div 16777216) % 256, (len \div 65536) % 256,
             (len \div 256) % 256, len % 256>>
        \o str
        \o [i \in 1..pad |-> 0]

\* the loop of append_address_as_string: bytes 8 .. 8+str_len-1 of the XDR
RECURSIVE AppendXdrContent(_, _, _, _)
AppendXdrContent(bytes, xdr_bytes, i, str_len) ==
    IF i >= str_len THEN bytes
    ELSE IF 8 + i < Len(xdr_bytes)
         THEN AppendXdrContent(bytes \o <<xdr_bytes[8 + i + 1]>>,
                               xdr_bytes, i + 1, str_len)
         ELSE AppendXdrContent(bytes, xdr_bytes, i + 1, str_len)

\* append_address_as_string that copies one byte less than the string has
append_address_as_string_truncated(bytes, address) ==
    LET addr_str == address_to_string(address)
        str_len == Len(addr_str) - 1
        xdr_bytes == string_to_xdr(addr_str)
    IN  AppendXdrContent(bytes, xdr_bytes, 0, str_len)

append_address_as_string(bytes, address) ==
    LET addr_str == address_to_string(address)
        str_len == Len(addr_str)
        xdr_bytes == string_to_xdr(addr_str)
    IN  AppendXdrContent(bytes, xdr_bytes, 0, str_len)

serialize_canonical_json(payload) ==
    LET r1 == <<>> \o LBrace
        r2 == append_u32_as_bytes(r1 \o RiskScoreKey, payload.risk_score)
        r3 == r2 \o Comma
        r4 == append_u64_as_bytes(r3 \o TimestampKey, payload.timestamp)
        r5 == r4 \o Comma
        r6 == append_address_as_string(r5 \o WalletKey, payload.wallet)
    IN  r6 \o QuoteRBrace

----------------------------------------------------------------------------
(* crypto.rs: signature verification *)

\* An Ed25519 signature is determined by the signing key pair and the signed
\* message; GarbageSignature is 64 bytes that no key pair produced.
Ed25519Sign(key, message) == [signer |-> key, msg |-> message]
GarbageSignature == [signer |-> "nobody", msg |-> <<>>]

\* env.crypto().ed25519_verify: returns, or traps the invocation
ed25519_verify(public_key, message, signature) ==
    signature.signer = public_key /\ signature.msg = message

\* verify_signature that checks the message but not the key
verify_signature_any_key(payload, signature, public_key) ==
    LET message == serialize_canonical_json(payload)
    IN  signature.msg = message

\* verify_signature over a fixed message instead of the payload's bytes
verify_signature_any_payload(payload, signature, public_key) ==
    signature.signer = public_key

\* verify_signature: TRUE, or the invocation is aborted by ed25519_verify
verify_signature(payload, signature, public_key) ==
    LET message == serialize_canonical_json(payload)
    IN  ed25519_verify(public_key, message, signature)

\* the DBG_MSG event verify_signature publishes before verifying
DebugEvent(payload) ==
    [topic |-> "DBG_MSG", data |-> serialize_canonical_json(payload)]

----------------------------------------------------------------------------
(* lib.rs: read-only entry points, as functions of the storage *)

max_age == 300

\* get_oracle_pubkey with a default key in place of expect()
get_oracle_pubkey_or_default ==
    IF oracle.tag = "Some" THEN Ok(oracle.val) ELSE Ok("K1")

\* get_oracle_pubkey: the stored key, or panics on expect()
get_oracle_pubkey ==
    IF oracle.tag = "Some" THEN Ok(oracle.val) ELSE Panic(NotInitialized)

get_risk(wallet) == risk[wallet]

\* check_permission with Freeze as the answer for an unknown wallet
check_permission_default_freeze(wallet) ==
    IF get_risk(wallet).tag = "Some" THEN get_risk(wallet).val.decision
    ELSE Freeze

check_permission(wallet) ==
    IF get_risk(wallet).tag = "Some" THEN get_risk(wallet).val.decision
    ELSE Allow

\* is_frozen that reports every wallet that is not allowed
is_frozen_not_allow(wallet) == check_permission(wallet) # Allow

is_frozen(wallet) == check_permission(wallet) = Freeze

\* the freshness test with >= in place of >
too_old_inclusive(current_time, timestamp) ==
    current_time > timestamp /\ (current_time - timestamp) >= max_age

\* the freshness test of submit_risk
too_old(current_time, timestamp) ==
    current_time > timestamp /\ (current_time - timestamp) > max_age

\* the decision-specific event without the Limit arm
DecisionEvent_no_limit_arm(payload, decision) ==
    IF decision = Freeze
    THEN [topic |-> "FROZEN", data |-> <<payload.wallet, payload.risk_score>>]
    ELSE [topic |-> "ALLOWED", data |-> <<payload.wallet, payload.risk_score>>]

\* the decision-specific event of submit_risk
DecisionEvent(payload, decision) ==
    IF decision = Freeze
    THEN [topic |-> "FROZEN", data |-> <<payload.wallet, payload.risk_score>>]
    ELSE IF decision.tag = "Limit"
    THEN [topic |-> "LIMITED",
          data |-> <<payload.wallet, payload.risk_score, decision.max>>]
    ELSE [topic |-> "ALLOWED", data |-> <<payload.wallet, payload.risk_score>>]

\* the checks of submit_risk with the score limit written > 101
submit_risk_outcome_limit_101(payload, signature) ==
    IF get_oracle_pubkey.tag = "Panic" THEN get_oracle_pubkey
    ELSE IF ~verify_signature(payload, signature, get_oracle_pubkey.val)
    THEN Panic(InvalidSignature)
    ELSE IF too_old(now, payload.timestamp) THEN Panic(StalePayload)
    ELSE IF payload.risk_score > 101 THEN Panic(InvalidScore)
    ELSE IF from_payload(payload).tag = "Panic" THEN from_payload(payload)
    ELSE Ok(Unit)

\* the checks of submit_risk with the score validated before the freshness
submit_risk_outcome_score_first(payload, signature) ==
    IF get_oracle_pubkey.tag = "Panic" THEN get_oracle_pubkey
    ELSE IF ~verify_signature(payload, signature, get_oracle_pubkey.val)
    THEN Panic(InvalidSignature)
    ELSE IF payload.risk_score > 100 THEN Panic(InvalidScore)
    ELSE IF too_old(now, payload.timestamp) THEN Panic(StalePayload)
    ELSE IF from_payload(payload).tag = "Panic" THEN from_payload(payload)
    ELSE Ok(Unit)

\* the checks of submit_risk without the score validation
submit_risk_outcome_no_score_check(payload, signature) ==
    IF get_oracle_pubkey.tag = "Panic" THEN get_oracle_pubkey
    ELSE IF ~verify_signature(payload, signature, get_oracle_pubkey.val)
    THEN Panic(InvalidSignature)
    ELSE IF too_old(now, payload.timestamp) THEN Panic(StalePayload)
    ELSE IF from_payload(payload).tag = "Panic" THEN from_payload(payload)
    ELSE Ok(Unit)

\* the checks of submit_risk with an extra rejection of a payload that is
\* not newer than the state stored for its wallet
submit_risk_outcome_newer_only(payload, signature) ==
    IF get_oracle_pubkey.tag = "Panic" THEN get_oracle_pubkey
    ELSE IF ~verify_signature(payload, signature, get_oracle_pubkey.val)
    THEN Panic(InvalidSignature)
    ELSE IF too_old(now, payload.timestamp) THEN Panic(StalePayload)
    ELSE IF /\ risk[payload.wallet].tag = "Some"
            /\ risk[payload.wallet].val.last_updated >= payload.timestamp
    THEN Panic(StalePayload)
    ELSE IF payload.risk_score > 100 THEN Panic(InvalidScore)
    ELSE IF from_payload(payload).tag = "Panic" THEN from_payload(payload)
    ELSE Ok(Unit)

\* the outcome of submit_risk: the checks in the order the code makes them
submit_risk_outcome(payload, signature) ==
    IF get_oracle_pubkey.tag = "Panic" THEN get_oracle_pubkey
    ELSE IF ~verify_signature(payload, signature, get_oracle_pubkey.val)
    THEN Panic(InvalidSignature)
    ELSE IF too_old(now, payload.timestamp) THEN Panic(StalePayload)
    ELSE IF payload.risk_score > 100 THEN Panic(InvalidScore)
    ELSE IF from_payload(payload).tag = "Panic" THEN from_payload(payload)
    ELSE Ok(Unit)

----------------------------------------------------------------------------
(* Inputs *)

\* timestamps a payload may carry, around the replay window of the clock
TimestampsAt(current_time) ==
    {t \in {current_time - (max_age + 1), current_time - max_age,
            current_time, current_time + FutureSkew} : t >= 0}

\* the payload with one field altered
AlterScore(p) == [p EXCEPT !.risk_score = IF @ = 10 THEN 100 ELSE 10]
AlterTimestamp(p) == [p EXCEPT !.timestamp = @ + 1]
AlterWallet(p) == [p EXCEPT !.wallet = IF @ = 1 THEN 2 ELSE 1]

\* signatures submitted with payload p: by either key pair, over p or over p
\* with one field altered, and a signature nobody made
SignaturesFor(p) ==
    {Ed25519Sign(k, serialize_canonical_json(q)) :
        k \in Keys, q \in {p, AlterScore(p), AlterTimestamp(p), AlterWallet(p)}}
    \cup {GarbageSignature}

----------------------------------------------------------------------------
(* State machine *)

Idle == [phase |-> "idle"]
Pending(op, args) == [phase |-> "pending", op |-> op, args |-> args]
Done(op, args, result) ==
    [phase |-> "done", op |-> op, args |-> args, result |-> result]

Running(op) == call.phase = "pending" /\ call.op = op

Init ==
    /\ oracle = None
    /\ risk = [w \in Wallets |-> None]
    /\ now = 0
    /\ events = <<>>
    /\ call = Idle
    /\ prior = [w \in Wallets |-> None]

\* initialize that returns quietly when a key is already stored
initialize_silent(oracle_pubkey) ==
    IF oracle.tag = "Some"
    THEN /\ call' = Done(call.op, call.args, Ok(Unit))
         /\ events' = <<>>
         /\ UNCHANGED <<oracle, risk, now>>
    ELSE /\ oracle' = Some(oracle_pubkey)
         /\ events' = <<[topic |-> "SDK_INIT", data |-> oracle_pubkey]>>
         /\ call' = Done(call.op, call.args, Ok(Unit))
         /\ UNCHANGED <<risk, now>>

\* initialize without the has() guard
initialize_overwrite(oracle_pubkey) ==
    /\ oracle' = Some(oracle_pubkey)
    /\ events' = <<[topic |-> "SDK_INIT", data |-> oracle_pubkey]>>
    /\ call' = Done(call.op, call.args, Ok(Unit))
    /\ UNCHANGED <<risk, now>>

\* SentinelSDK::initialize
initialize(oracle_pubkey) ==
    IF oracle.tag = "Some"
    THEN /\ call' = Done(call.op, call.args, Panic(AlreadyInitialized))
         /\ events' = <<>>
         /\ UNCHANGED <<oracle, risk, now>>
    ELSE /\ oracle' = Some(oracle_pubkey)
         /\ events' = <<[topic |-> "SDK_INIT", data |-> oracle_pubkey]>>
         /\ call' = Done(call.op, call.args, Ok(Unit))
         /\ UNCHANGED <<risk, now>>

\* submit_risk that stores the state before the score is validated and
\* keeps the write when the validation fails
submit_risk_write_first(payload, signature) ==
    LET outcome == submit_risk_outcome(payload, signature)
        risk_state == [risk_score |-> payload.risk_score,
                       last_updated |-> payload.timestamp,
                       decision |-> Freeze]
    IN  /\ call' = Done(call.op, call.args, outcome)
        /\ IF outcome.tag = "Ok"
           THEN /\ risk' = [risk EXCEPT ![payload.wallet] =
                                Some(from_payload(payload).val)]
                /\ events' = <<DebugEvent(payload),
                               [topic |-> "RISK_UPD",
                                data |-> <<payload.wallet, payload.risk_score,
                                           payload.timestamp>>],
                               DecisionEvent(payload,
                                             from_payload(payload).val.decision)>>
           ELSE IF outcome = Panic(InvalidScore)
           THEN /\ risk' = [risk EXCEPT ![payload.wallet] = Some(risk_state)]
                /\ events' = <<>>
           ELSE /\ risk' = risk
                /\ events' = <<>>
        /\ UNCHANGED <<oracle, now>>

\* submit_risk that stores a state only for a wallet that has none
submit_risk_no_overwrite(payload, signature) ==
    LET outcome == submit_risk_outcome(payload, signature)
        risk_state == from_payload(payload).val
    IN  /\ call' = Done(call.op, call.args, outcome)
        /\ IF outcome.tag = "Ok"
           THEN /\ risk' = IF risk[payload.wallet].tag = "Some" THEN risk
                           ELSE [risk EXCEPT ![payload.wallet] = Some(risk_state)]
                /\ events' = <<DebugEvent(payload),
                               [topic |-> "RISK_UPD",
                                data |-> <<payload.wallet, payload.risk_score,
                                           payload.timestamp>>],
                               DecisionEvent(payload, risk_state.decision)>>
           ELSE /\ risk' = risk
                /\ events' = <<>>
        /\ UNCHANGED <<oracle, now>>

\* submit_risk that removes the entry of a wallet whose decision is Allow
submit_risk_remove_on_allow(payload, signature) ==
    LET outcome == submit_risk_outcome(payload, signature)
        risk_state == from_payload(payload).val
    IN  /\ call' = Done(call.op, call.args, outcome)
        /\ IF outcome.tag = "Ok"
           THEN /\ risk' = [risk EXCEPT ![payload.wallet] =
                                IF risk_state.decision = Allow THEN None
                                ELSE Some(risk_state)]
                /\ events' = <<DebugEvent(payload),
                               [topic |-> "RISK_UPD",
                                data |-> <<payload.wallet, payload.risk_score,
                                           payload.timestamp>>],
                               DecisionEvent(payload, risk_state.decision)>>
           ELSE /\ risk' = risk
                /\ events' = <<>>
        /\ UNCHANGED <<oracle, now>>

\* submit_risk that stores the state under one fixed key instead of the
\* wallet of the payload
submit_risk_fixed_key(payload, signature) ==
    LET outcome == submit_risk_outcome(payload, signature)
        risk_state == from_payload(payload).val
    IN  /\ call' = Done(call.op, call.args, outcome)
        /\ IF outcome.tag = "Ok"
           THEN /\ risk' = [w \in Wallets |-> Some(risk_state)]
                /\ events' = <<DebugEvent(payload),
                               [topic |-> "RISK_UPD",
                                data |-> <<payload.wallet, payload.risk_score,
                                           payload.timestamp>>],
                               DecisionEvent(payload, risk_state.decision)>>
           ELSE /\ risk' = risk
                /\ events' = <<>>
        /\ UNCHANGED <<oracle, now>>

\* SentinelSDK::submit_risk
submit_risk(payload, signature) ==
    LET outcome == submit_risk_outcome(payload, signature)
        risk_state == from_payload(payload).val
    IN  /\ call' = Done(call.op, call.args, outcome)
        /\ IF outcome.tag = "Ok"
           THEN /\ risk' = [risk EXCEPT ![payload.wallet] = Some(risk_state)]
                /\ events' = <<DebugEvent(payload),
                               [topic |-> "RISK_UPD",
                                data |-> <<payload.wallet, payload.risk_score,
                                           payload.timestamp>>],
                               DecisionEvent(payload, risk_state.decision)>>
           ELSE /\ risk' = risk
                /\ events' = <<>>
        /\ UNCHANGED <<oracle, now>>

\* the read-only entry points leave the storage alone and publish nothing
ReadOnly(result) ==
    /\ call' = Done(call.op, call.args, result)
    /\ events' = <<>>
    /\ UNCHANGED <<oracle, risk, now>>

Initialize ==
    /\ Running("initialize") /\ initialize(call.args.oracle_pubkey)
    /\ prior' = risk

SubmitRisk ==
    /\ Running("submit_risk")
    /\ submit_risk(call.args.payload, call.args.signature)
    /\ prior' = risk

\* get_risk that stores a default state for a wallet that has none
GetRisk_insert_default ==
    /\ Running("get_risk")
    /\ call' = Done(call.op, call.args, Ok(get_risk(call.args.wallet)))
    /\ risk' = [risk EXCEPT ![call.args.wallet] =
                    IF @ = None
                    THEN Some([risk_score |-> 0, last_updated |-> now,
                               decision |-> Allow])
                    ELSE @]
    /\ events' = <<>>
    /\ prior' = risk
    /\ UNCHANGED <<oracle, now>>

\* SentinelSDK::get_risk
GetRisk ==
    /\ Running("get_risk") /\ ReadOnly(Ok(get_risk(call.args.wallet)))
    /\ prior' = risk

\* SentinelSDK::check_permission
CheckPermission ==
    /\ Running("check_permission")
    /\ ReadOnly(Ok(check_permission(call.args.wallet)))
    /\ prior' = risk

\* SentinelSDK::is_frozen
IsFrozen ==
    /\ Running("is_frozen") /\ ReadOnly(Ok(is_frozen(call.args.wallet)))
    /\ prior' = risk

\* SentinelSDK::get_oracle_pubkey
GetOraclePubkey ==
    /\ Running("get_oracle_pubkey") /\ ReadOnly(get_oracle_pubkey)
    /\ prior' = risk

\* the invocations a caller can submit while the ledger clock is current_time
Invocations(current_time) ==
    {Pending("initialize", [oracle_pubkey |-> k]) : k \in Keys}
    \cup UNION {
        {Pending("submit_risk", [payload |-> RiskPayload(w, s, t), signature |-> sig]) :
            sig \in SignaturesFor(RiskPayload(w, s, t))} :
        w \in Wallets, s \in Scores, t \in TimestampsAt(current_time)}
    \cup {Pending(op, [wallet |-> w]) :
            op \in {"get_risk", "check_permission", "is_frozen"}, w \in Wallets}
    \cup {Pending("get_oracle_pubkey", <<>>)}

\* a caller submits an invocation
Invoke ==
    /\ call = Idle
    /\ call' \in Invocations(now)
    /\ prior' = risk
    /\ UNCHANGED <<oracle, risk, now, events>>

\* the outcome is handed back; the contract is ready for the next invocation
Return ==
    /\ call.phase = "done"
    /\ call' = Idle
    /\ prior' = risk
    /\ UNCHANGED <<oracle, risk, now, events>>

\* the host closes ledgers: the clock advances between invocations
LedgerClose ==
    /\ call = Idle
    /\ \E d \in ClockSteps :
        /\ now + d <= MaxTime
        /\ now' = now + d
    /\ prior' = risk
    /\ UNCHANGED <<oracle, risk, events, call>>

Next ==
    \/ Invoke
    \/ Initialize
    \/ SubmitRisk
    \/ GetRisk
    \/ CheckPermission
    \/ IsFrozen
    \/ GetOraclePubkey
    \/ Return
    \/ LedgerClose

Spec == Init /\ [][Next]_vars

----------------------------------------------------------------------------
(* The decision function on its own: every score 0..MaxProbeScore is fed *)
(* to RiskState::calculate_decision.                                      *)

DecideProbe ==
    \E s \in 0..MaxProbeScore :
        /\ call' = Done("calculate_decision", [risk_score |-> s],
                        calculate_decision(s))
        /\ UNCHANGED <<oracle, risk, now, events, prior>>

NextDecide == DecideProbe

SpecDecide == Init /\ [][NextDecide]_vars

----------------------------------------------------------------------------
(* The canonical encoder on its own: serialize_canonical_json is applied  *)
(* to payloads with small and large scores and timestamps.                *)

EncScores == 0..MaxEncScore \cup {87, 100, 101, 1000}
EncTimestamps == {0, 1, 10, 99, 100, 1737718800}
EncPayloads ==
    {RiskPayload(w, s, t) : w \in Wallets, s \in EncScores, t \in EncTimestamps}

EncodeProbe ==
    \E p \in EncPayloads :
        /\ call' = Done("serialize_canonical_json", [payload |-> p],
                        Ok(serialize_canonical_json(p)))
        /\ UNCHANGED <<oracle, risk, now, events, prior>>

NextEncode == EncodeProbe

SpecEncode == Init /\ [][NextEncode]_vars

----------------------------------------------------------------------------
(* The freshness test over the whole u64 range.  A u64 is four 16-bit     *)
(* limbs, most significant first, so that 2^64 - 1 is an exact value.     *)

LimbBase == 65536

U64Zero == <<0, 0, 0, 0>>
U64Max == <<LimbBase - 1, LimbBase - 1, LimbBase - 1, LimbBase - 1>>

\* the u64 of a number below 2^31
U64FromNat(n) == <<0, 0, n \div LimbBase, n % LimbBase>>

\* the u64 values that are numbers below 2^31, and their number
U64Small(v) == v[1] = 0 /\ v[2] = 0 /\ v[3] < LimbBase \div 2
U64ToNat(v) == v[3] * LimbBase + v[4]

\* a > b on u64
U64Gt(a, b) ==
    \E i \in 1..4 : a[i] > b[i] /\ \A j \in 1..(i - 1) : a[j] = b[j]

\* a - b modulo 2^64, limb by limb from the least significant, and whether
\* the subtraction borrowed out of the most significant limb
U64Sub(a, b) ==
    LET b4 == IF a[4] < b[4] THEN 1 ELSE 0
        b3 == IF a[3] < b[3] + b4 THEN 1 ELSE 0
        b2 == IF a[2] < b[2] + b3 THEN 1 ELSE 0
        b1 == IF a[1] < b[1] + b2 THEN 1 ELSE 0
    IN  [value |-> <<(a[1] - b[1] - b2 + LimbBase) % LimbBase,
                     (a[2] - b[2] - b3 + LimbBase) % LimbBase,
                     (a[3] - b[3] - b4 + LimbBase) % LimbBase,
                     (a[4] - b[4] + LimbBase) % LimbBase>>,
         borrow |-> b1 = 1]

ArithmeticOverflow == "attempt to subtract with overflow"

\* the operator - on u64: a difference below zero panics in a build with
\* overflow checks and wraps in a build without them
u64_sub(a, b) ==
    IF U64Sub(a, b).borrow
    THEN {Panic(ArithmeticOverflow), Ok(U64Sub(a, b).value)}
    ELSE {Ok(U64Sub(a, b).value)}

\* the freshness test with the operands of && exchanged: the subtraction
\* is made before the comparison of the clock with the timestamp
too_old_u64_sub_first(current_time, timestamp) ==
    {[result |-> IF d.tag = "Ok"
                 THEN Ok(/\ U64Gt(d.val, U64FromNat(max_age))
                         /\ U64Gt(current_time, timestamp))
                 ELSE d,
      subtracted |-> TRUE,
      underflow |-> U64Sub(current_time, timestamp).borrow]
       : d \in u64_sub(current_time, timestamp)}

\* the freshness test of submit_risk on u64 operands: the outcomes it can
\* have, with whether the subtraction was evaluated and went below zero
too_old_u64(current_time, timestamp) ==
    IF ~U64Gt(current_time, timestamp)
    THEN {[result |-> Ok(FALSE), subtracted |-> FALSE, underflow |-> FALSE]}
    ELSE {[result |-> IF d.tag = "Ok"
                      THEN Ok(U64Gt(d.val, U64FromNat(max_age)))
                      ELSE d,
           subtracted |-> TRUE,
           underflow |-> U64Sub(current_time, timestamp).borrow]
            : d \in u64_sub(current_time, timestamp)}

\* clocks and timestamps over the whole range
U64Probes ==
    {U64FromNat(n) : n \in {0, 1, 299, 300, 301, 302, 65535, 65536,
                            65837, 1737718800, 1737719101}}
    \cup {<<0, 1, 0, 0>>, <<0, 1, 0, 301>>, <<LimbBase \div 2, 0, 0, 0>>,
          <<LimbBase - 1, LimbBase - 1, LimbBase - 1, LimbBase - 302>>,
          <<LimbBase - 1, LimbBase - 1, LimbBase - 1, LimbBase - 301>>,
          U64Max}

AgeProbe ==
    \E current_time \in U64Probes, timestamp \in U64Probes :
        \E outcome \in too_old_u64(current_time, timestamp) :
            /\ call' = Done("too_old",
                            [current_time |-> current_time,
                             timestamp |-> timestamp], outcome)
            /\ UNCHANGED <<oracle, risk, now, events, prior>>

NextAge == AgeProbe

SpecAge == Init /\ [][NextAge]_vars

----------------------------------------------------------------------------
(* Vocabulary of the properties *)

\* the threshold table of the decision engine
DecisionTable(score) ==
    IF score <= 49 THEN Allow
    ELSE IF score <= 79 THEN Limit(5000)
    ELSE Freeze

\* severity order Allow < Limit < Freeze
Severity(decision) ==
    IF decision.tag = "Allow" THEN 0
    ELSE IF decision.tag = "Limit" THEN 1
    ELSE 2

\* signature was made by the key pair of public_key over the canonical
\* bytes of payload
SignedBy(payload, signature, public_key) ==
    signature = Ed25519Sign(public_key, serialize_canonical_json(payload))

\* the submit_risk invocation in progress (or just finished)
IsSubmit == call.phase # "idle" /\ call.op = "submit_risk"
Finished(op) == call.phase = "done" /\ call.op = op

Rejections ==
    {NotInitialized, AlreadyInitialized, InvalidSignature, StalePayload,
     InvalidScore}

----------------------------------------------------------------------------
(* Properties *)

\* C1: whenever submit_risk runs on an initialized contract with a signature
\* that was not made by the stored oracle key over the canonical bytes of
\* the submitted payload, the call is rejected with InvalidSignature and
\* the oracle key and every RiskState stay as they were.
C1_BadSignatureRejected ==
    [][(/\ Running("submit_risk")
        /\ oracle.tag = "Some"
        /\ ~SignedBy(call.args.payload, call.args.signature, oracle.val))
       => (/\ call'.result = Panic(InvalidSignature)
           /\ oracle' = oracle
           /\ risk' = risk)]_vars

\* a signature by the stored key over the payload with one field altered
\* was rejected, while the wallet already had a RiskState
C1_Witness ==
    /\ Finished("submit_risk")
    /\ oracle.tag = "Some"
    /\ call.args.signature.signer = oracle.val
    /\ call.args.signature.msg # serialize_canonical_json(call.args.payload)
    /\ risk[call.args.payload.wallet].tag = "Some"
    /\ call.result = Panic(InvalidSignature)

\* C2: on an initialized contract, a correctly signed payload with a score
\* in 0..100 is rejected with StalePayload exactly when its timestamp is
\* less than the ledger clock minus 300, and is accepted otherwise
\* (clock - 300 itself, the clock, and any later timestamp).
C2_StaleExactlyBeyondWindow ==
    [][(/\ Running("submit_risk")
        /\ oracle.tag = "Some"
        /\ SignedBy(call.args.payload, call.args.signature, oracle.val)
        /\ call.args.payload.risk_score \in 0..100)
       => IF call.args.payload.timestamp < now - 300
          THEN call'.result = Panic(StalePayload)
          ELSE call'.result = Ok(Unit)]_vars

\* a payload exactly 300 seconds old was accepted
C2_Witness ==
    /\ Finished("submit_risk")
    /\ now >= 300
    /\ call.args.payload.timestamp = now - 300
    /\ call.result = Ok(Unit)
    /\ risk[call.args.payload.wallet].val.last_updated = now - 300

\* C3: every stored RiskState has the decision the threshold table gives
\* for its stored score.
C3_DecisionMatchesScore ==
    \A w \in Wallets :
        risk[w].tag = "Some"
        => risk[w].val.decision = DecisionTable(risk[w].val.risk_score)

\* one wallet is stored as limited and the other as frozen
C3_Witness ==
    \E w1, w2 \in Wallets :
        /\ risk[w1].tag = "Some" /\ risk[w1].val.decision = Limit(5000)
        /\ risk[w2].tag = "Some" /\ risk[w2].val.decision = Freeze

\* C4: once a key is stored, every initialize call, with the same key or
\* another one, fails with AlreadyInitialized and leaves the key in place.
C4_InitializeOnce ==
    [][(Running("initialize") /\ oracle.tag = "Some")
       => (/\ call'.result = Panic(AlreadyInitialized)
           /\ oracle' = oracle)]_vars

\* a second initialize with a different key was refused
C4_Witness ==
    /\ Finished("initialize")
    /\ oracle.tag = "Some"
    /\ call.args.oracle_pubkey # oracle.val
    /\ call.result = Panic(AlreadyInitialized)

\* C5: the first successful initialize(k) stores k, no later step changes
\* or removes the stored key, and get_oracle_pubkey returns the stored key.
C5_OracleKeyImmutable ==
    [][/\ (Running("initialize") /\ oracle.tag = "None")
            => oracle' = Some(call.args.oracle_pubkey)
       /\ oracle.tag = "Some" => oracle' = oracle
       /\ (Running("get_oracle_pubkey") /\ oracle.tag = "Some")
            => call'.result = Ok(oracle.val)]_vars

\* get_oracle_pubkey returned the key after submissions were stored and
\* the ledger clock had advanced
C5_Witness ==
    /\ Finished("get_oracle_pubkey")
    /\ oracle.tag = "Some"
    /\ call.result = Ok(oracle.val)
    /\ now > 0
    /\ \A w \in Wallets : risk[w].tag = "Some"

\* C6 as stated: every submit_risk with a score above 100 and a valid
\* signature over that payload is rejected with InvalidScore and writes no
\* RiskState.
C6_Original ==
    [][(/\ Running("submit_risk")
        /\ oracle.tag = "Some"
        /\ SignedBy(call.args.payload, call.args.signature, oracle.val)
        /\ call.args.payload.risk_score > 100)
       => (/\ call'.result = Panic(InvalidScore)
           /\ risk' = risk)]_vars

\* C6: a submit_risk with a score above 100, a valid signature over that
\* payload and a timestamp not older than 300 seconds is rejected with
\* InvalidScore; with an older timestamp it is rejected with StalePayload;
\* in both cases no RiskState is written.
C6_InvalidScoreRejected ==
    [][(/\ Running("submit_risk")
        /\ oracle.tag = "Some"
        /\ SignedBy(call.args.payload, call.args.signature, oracle.val)
        /\ call.args.payload.risk_score > 100)
       => (/\ call'.result =
                IF call.args.payload.timestamp < now - 300
                THEN Panic(StalePayload) ELSE Panic(InvalidScore)
           /\ risk' = risk)]_vars

\* a validly signed fresh payload with a score above 100 was rejected with
\* InvalidScore for a wallet that has no RiskState
C6_Witness ==
    /\ Finished("submit_risk")
    /\ oracle.tag = "Some"
    /\ SignedBy(call.args.payload, call.args.signature, oracle.val)
    /\ call.args.payload.risk_score > 100
    /\ call.args.payload.timestamp >= now
    /\ call.result = Panic(InvalidScore)
    /\ risk[call.args.payload.wallet] = None

\* C7: a call that ends in a rejection ends in one of the five rejections
\* and leaves the oracle key and every RiskState as they were; a RiskState
\* changes only in a submit_risk that passed every check.
C7_RejectionChangesNothing ==
    [][/\ (call.phase = "pending" /\ call'.phase = "done"
           /\ call'.result.tag = "Panic")
            => (/\ call'.result.err \in Rejections
                /\ oracle' = oracle
                /\ risk' = risk)
       /\ risk' # risk
            => (/\ Running("submit_risk")
                /\ call'.result = Ok(Unit)
                /\ oracle.tag = "Some"
                /\ SignedBy(call.args.payload, call.args.signature, oracle.val)
                /\ call.args.payload.timestamp >= now - 300
                /\ call.args.payload.risk_score <= 100)]_vars

\* a submission was rejected for its score while its wallet had a RiskState
\* written by an earlier submission with another score
C7_Witness ==
    /\ Finished("submit_risk")
    /\ call.result = Panic(InvalidScore)
    /\ risk[call.args.payload.wallet].tag = "Some"
    /\ risk[call.args.payload.wallet].val.risk_score
         # call.args.payload.risk_score

\* C8: calculate_decision returns a decision for every score 0..100, the
\* one of the threshold table (0..49 Allow, 50..79 Limit(5000), 80..100
\* Freeze), and no lower score has a more severe decision.
C8_DecisionTable ==
    Finished("calculate_decision")
    => LET s == call.args.risk_score
       IN  s \in 0..100
           => /\ call.result.tag = "Ok"
              /\ s \in 0..49 => call.result.val = Allow
              /\ s \in 50..79 => call.result.val = Limit(5000)
              /\ s \in 80..100 => call.result.val = Freeze
              /\ \A lower \in 0..s :
                    /\ calculate_decision(lower).tag = "Ok"
                    /\ Severity(calculate_decision(lower).val)
                         <= Severity(call.result.val)

\* the decision function was applied at the boundary score 80
C8_Witness ==
    /\ Finished("calculate_decision")
    /\ call.args.risk_score = 80
    /\ call.result = Ok(Freeze)

\* C9: for every wallet without a stored RiskState the permission is Allow
\* and the wallet is not frozen, and check_permission and is_frozen called
\* for such a wallet return Allow and false without failing.
C9_UnknownWalletAllowed ==
    /\ \A w \in Wallets :
        risk[w] = None => (check_permission(w) = Allow /\ ~is_frozen(w))
    /\ (Finished("check_permission") /\ risk[call.args.wallet] = None)
        => call.result = Ok(Allow)
    /\ (Finished("is_frozen") /\ risk[call.args.wallet] = None)
        => call.result = Ok(FALSE)

\* is_frozen answered false for a wallet without a state while another
\* wallet was frozen
C9_Witness ==
    /\ Finished("is_frozen")
    /\ risk[call.args.wallet] = None
    /\ call.result = Ok(FALSE)
    /\ \E w \in Wallets : risk[w].tag = "Some" /\ risk[w].val.decision = Freeze

\* C10: a successful submit_risk for a wallet with score s and timestamp T
\* leaves exactly {s, T, table(s)} as the wallet's state, whatever was
\* stored before, and check_permission then gives table(s); a wallet's
\* state changes in no other step; get_risk and check_permission return
\* what is stored.
C10_StoredStateIsLastAccepted ==
    [][/\ (Running("submit_risk") /\ call'.result.tag = "Ok")
            => LET p == call.args.payload
               IN  /\ risk'[p.wallet] =
                        Some([risk_score |-> p.risk_score,
                              last_updated |-> p.timestamp,
                              decision |-> DecisionTable(p.risk_score)])
                   /\ check_permission(p.wallet)' = DecisionTable(p.risk_score)
       /\ \A w \in Wallets :
            risk'[w] # risk[w]
            => (/\ Running("submit_risk")
                /\ call'.result.tag = "Ok"
                /\ call.args.payload.wallet = w)
       /\ Running("get_risk")
            => call'.result = Ok(risk[call.args.wallet])
       /\ (Running("check_permission") /\ risk[call.args.wallet].tag = "Some")
            => call'.result = Ok(risk[call.args.wallet].val.decision)]_vars

\* get_risk returned a state with score 10 and decision Allow whose
\* timestamp is older than the ledger clock
C10_Witness ==
    /\ Finished("get_risk")
    /\ call.result.val.tag = "Some"
    /\ call.result.val.val.risk_score = 10
    /\ call.result.val.val.decision = Allow
    /\ call.result.val.val.last_updated < now

\* C11: for every wallet, is_frozen is true exactly when check_permission
\* is Freeze, which is exactly when the wallet has a stored RiskState with
\* a score in 80..100; an is_frozen call returns that value.
C11_FrozenIffFreeze ==
    /\ \A w \in Wallets :
        LET stored_high == /\ risk[w].tag = "Some"
                           /\ risk[w].val.risk_score \in 80..100
        IN  /\ is_frozen(w) <=> (check_permission(w) = Freeze)
            /\ is_frozen(w) <=> stored_high
    /\ Finished("is_frozen")
        => call.result = Ok(check_permission(call.args.wallet) = Freeze)

\* is_frozen answered false for a wallet that is stored as limited
C11_Witness ==
    /\ Finished("is_frozen")
    /\ risk[call.args.wallet].tag = "Some"
    /\ risk[call.args.wallet].val.decision = Limit(5000)
    /\ call.result = Ok(FALSE)

\* C12: while no oracle key is stored, every submit_risk and every
\* get_oracle_pubkey fails with NotInitialized, and no wallet has a
\* RiskState.
C12_NotInitializedRejects ==
    [][/\ (Running("submit_risk") /\ oracle = None)
            => (call'.result = Panic(NotInitialized) /\ risk' = risk)
       /\ (Running("get_oracle_pubkey") /\ oracle = None)
            => call'.result = Panic(NotInitialized)
       /\ oracle = None => \A w \in Wallets : risk[w] = None
       /\ oracle' = None => \A w \in Wallets : risk'[w] = None]_vars

\* a fresh payload with a valid score, signed by a key pair over its own
\* bytes, was rejected because no key is stored
C12_Witness ==
    /\ Finished("submit_risk")
    /\ oracle = None
    /\ \E k \in Keys : SignedBy(call.args.payload, call.args.signature, k)
    /\ call.args.payload.risk_score <= 100
    /\ call.args.payload.timestamp >= now
    /\ call.result = Panic(NotInitialized)

\* C13: a wallet's RiskState is created or replaced only by a submit_risk
\* for that wallet whose signature is the stored oracle key's signature
\* over the payload, and the new state is from_payload of that payload;
\* initialize, the reads and rejected calls write no RiskState.
C13_OnlyVerifiedSubmissionsWrite ==
    [][\A w \in Wallets :
        risk'[w] # risk[w]
        => (/\ Running("submit_risk")
            /\ call'.result = Ok(Unit)
            /\ call.args.payload.wallet = w
            /\ oracle.tag = "Some"
            /\ SignedBy(call.args.payload, call.args.signature, oracle.val)
            /\ from_payload(call.args.payload).tag = "Ok"
            /\ risk'[w] = Some(from_payload(call.args.payload).val))]_vars

\* a verified submission replaced a wallet's state while the other wallet
\* holds a state too
C13_Witness ==
    /\ Finished("submit_risk")
    /\ call.result = Ok(Unit)
    /\ oracle.tag = "Some"
    /\ SignedBy(call.args.payload, call.args.signature, oracle.val)
    /\ risk[call.args.payload.wallet] = Some(from_payload(call.args.payload).val)
    /\ \A w \in Wallets : risk[w].tag = "Some"

\* C14: a wallet that has a RiskState has one after every step.
C14_NeverDeleted ==
    [][\A w \in Wallets : risk[w].tag = "Some" => risk'[w].tag = "Some"]_vars

\* get_risk returned a state whose timestamp has left the replay window
C14_Witness ==
    /\ Finished("get_risk")
    /\ call.result.val.tag = "Some"
    /\ call.result.val.val.last_updated + max_age < now

\* the entry points that only read
ReadOps == {"get_risk", "check_permission", "is_frozen", "get_oracle_pubkey"}

\* the topics of the audit records of submit_risk
AuditTopics == {"RISK_UPD", "FROZEN", "LIMITED", "ALLOWED"}
DecisionTopics == {"FROZEN", "LIMITED", "ALLOWED"}

\* C15: get_risk, check_permission, is_frozen and get_oracle_pubkey leave
\* the oracle key, every RiskState and the clock as they were, so the
\* outcome of every submit_risk, initialize and read that can follow is
\* the same after the read as before it.
C15_ReadsChangeNothing ==
    [][(call.phase = "pending" /\ call.op \in ReadOps)
       => (/\ oracle' = oracle
           /\ risk' = risk
           /\ now' = now
           /\ get_oracle_pubkey' = get_oracle_pubkey
           /\ \A w \in Wallets :
                /\ get_risk(w)' = get_risk(w)
                /\ check_permission(w)' = check_permission(w)
                /\ is_frozen(w)' = is_frozen(w)
           /\ \A w \in Wallets, s \in Scores, t \in TimestampsAt(now) :
                LET p == RiskPayload(w, s, t)
                    message == serialize_canonical_json(p)
                IN  \A sig \in {Ed25519Sign(k, message) : k \in Keys}
                                \cup {GarbageSignature} :
                        submit_risk_outcome(p, sig)' = submit_risk_outcome(p, sig))]_vars

\* get_risk found no state for a wallet on an initialized contract and
\* left that wallet without one
C15_Witness ==
    /\ Finished("get_risk")
    /\ oracle.tag = "Some"
    /\ call.result = Ok(None)
    /\ risk[call.args.wallet] = None

\* C16: a successful submit_risk publishes one RISK_UPD record with the
\* wallet, score and timestamp, directly followed by the one record of
\* the stored decision (FROZEN, LIMITED with the cap 5000, or ALLOWED) and
\* no other decision record; a rejected submit_risk publishes no audit
\* record.
C16_AuditRecords ==
    [][Running("submit_risk")
       => LET p == call.args.payload
              audit == SelectSeq(events', LAMBDA e : e.topic \in AuditTopics)
          IN  IF call'.result.tag = "Ok"
              THEN /\ Len(audit) = 2
                   /\ audit[1] = [topic |-> "RISK_UPD",
                                  data |-> <<p.wallet, p.risk_score, p.timestamp>>]
                   /\ audit[2].topic \in DecisionTopics
                   /\ \E i \in 1..(Len(events') - 1) :
                        events'[i] = audit[1] /\ events'[i + 1] = audit[2]
                   /\ risk'[p.wallet].tag = "Some"
                   /\ LET stored == risk'[p.wallet].val.decision
                      IN  /\ stored = Freeze
                            => audit[2] = [topic |-> "FROZEN",
                                           data |-> <<p.wallet, p.risk_score>>]
                          /\ stored.tag = "Limit"
                            => audit[2] = [topic |-> "LIMITED",
                                           data |-> <<p.wallet, p.risk_score, 5000>>]
                          /\ stored = Allow
                            => audit[2] = [topic |-> "ALLOWED",
                                           data |-> <<p.wallet, p.risk_score>>]
              ELSE audit = <<>>]_vars

\* a submission with a score in the Limit range published LIMITED with the
\* cap 5000 as its last record
C16_Witness ==
    /\ Finished("submit_risk")
    /\ call.result = Ok(Unit)
    /\ Len(events) >= 2
    /\ events[Len(events) - 1].topic = "RISK_UPD"
    /\ events[Len(events)] =
         [topic |-> "LIMITED",
          data |-> <<call.args.payload.wallet, call.args.payload.risk_score, 5000>>]

\* C19: the rejection of a submit_risk is that of the first failing check
\* in the order NotInitialized, InvalidSignature, StalePayload,
\* InvalidScore, and the call succeeds when no check fails.
C19_FirstFailingCheck ==
    [][Running("submit_risk")
       => LET p == call.args.payload
          IN  call'.result =
                IF oracle = None THEN Panic(NotInitialized)
                ELSE IF ~SignedBy(p, call.args.signature, oracle.val)
                THEN Panic(InvalidSignature)
                ELSE IF p.timestamp < now - 300 THEN Panic(StalePayload)
                ELSE IF p.risk_score > 100 THEN Panic(InvalidScore)
                ELSE Ok(Unit)]_vars

\* a correctly signed payload that is both too old and above 100 was
\* rejected as stale
C19_Witness ==
    /\ Finished("submit_risk")
    /\ oracle.tag = "Some"
    /\ SignedBy(call.args.payload, call.args.signature, oracle.val)
    /\ call.args.payload.timestamp < now - 300
    /\ call.args.payload.risk_score > 100
    /\ call.result = Panic(StalePayload)

\* C20: no invocation ends in the panic of calculate_decision, and every
\* stored RiskState has a score in 0..100.
C20_OutOfRangeUnreachable ==
    /\ call.phase = "done" => call.result # Panic(DecisionOutOfRange)
    /\ \A w \in Wallets :
        risk[w].tag = "Some" => risk[w].val.risk_score \in 0..100

\* score 101 was stopped by the validation of submit_risk while score 100
\* is stored for the other wallet
C20_Witness ==
    /\ Finished("submit_risk")
    /\ call.args.payload.risk_score = 101
    /\ call.result = Panic(InvalidScore)
    /\ \E w \in Wallets :
        /\ w # call.args.payload.wallet
        /\ risk[w].tag = "Some"
        /\ risk[w].val.risk_score = 100

\* the value a sequence of ASCII digits denotes
RECURSIVE DecimalValue(_)
DecimalValue(digits) ==
    IF digits = <<>> THEN 0
    ELSE DecimalValue(SubSeq(digits, 1, Len(digits) - 1)) * 10
         + (digits[Len(digits)] - 48)

\* digits is the minimal decimal ASCII rendering of value
MinimalDecimal(digits, value) ==
    /\ Len(digits) >= 1
    /\ \A i \in 1..Len(digits) : digits[i] \in 48..57
    /\ Len(digits) > 1 => digits[1] # 48
    /\ DecimalValue(digits) = value

\* the fixed parts of the canonical form:  {"risk_score":  ,"timestamp":
\* ,"wallet":"  "}
CanonOpen ==
    <<123, 34, 114, 105, 115, 107, 95, 115, 99, 111, 114, 101, 34, 58>>
CanonTimestamp ==
    <<44, 34, 116, 105, 109, 101, 115, 116, 97, 109, 112, 34, 58>>
CanonWallet == <<44, 34, 119, 97, 108, 108, 101, 116, 34, 58, 34>>
CanonClose == <<34, 125>>

\* bytes is {"risk_score":S,"timestamp":T,"wallet":"W"} with S and T the
\* minimal decimal renderings of the score and the timestamp of payload
\* and W the string form of its wallet
CanonicalForm(bytes, payload) ==
    \E ls \in 1..10, lt \in 1..20 :
        /\ Len(CanonOpen) + ls + Len(CanonTimestamp) + lt <= Len(bytes)
        /\ LET S == SubSeq(bytes, Len(CanonOpen) + 1, Len(CanonOpen) + ls)
               t0 == Len(CanonOpen) + ls + Len(CanonTimestamp)
               T == SubSeq(bytes, t0 + 1, t0 + lt)
           IN  /\ bytes = CanonOpen \o S \o CanonTimestamp \o T \o CanonWallet
                            \o address_to_string(payload.wallet) \o CanonClose
               /\ MinimalDecimal(S, payload.risk_score)
               /\ MinimalDecimal(T, payload.timestamp)

\* C17: for every payload the canonical encoder returns exactly
\* {"risk_score":S,"timestamp":T,"wallet":"W"}, without whitespace, S and
\* T being the minimal decimal renderings of score and timestamp (0 is the
\* single character 0) and W the wallet's string.
C17_CanonicalBytes ==
    Finished("serialize_canonical_json")
    => /\ call.result.tag = "Ok"
       /\ CanonicalForm(call.result.val, call.args.payload)
       /\ \A i \in 1..Len(call.result.val) :
            call.result.val[i] \notin {9, 10, 13, 32}

\* the payload with score 0 and timestamp 0 was encoded with two 0 digits
C17_Witness ==
    /\ Finished("serialize_canonical_json")
    /\ call.args.payload.risk_score = 0
    /\ call.args.payload.timestamp = 0
    /\ call.result.val[Len(CanonOpen) + 1] = 48
    /\ call.result.val[Len(CanonOpen) + 1 + Len(CanonTimestamp) + 1] = 48

\* C18: the encoding of a payload is the same whenever it is computed, and
\* every payload that differs from it in wallet, score or timestamp has a
\* different encoding.
C18_EncodingInjective ==
    Finished("serialize_canonical_json")
    => \A q \in EncPayloads :
        (serialize_canonical_json(q) = call.result.val)
            <=> (q = call.args.payload)

\* a payload that differs from another probed payload only in the wallet
\* was encoded
C18_Witness ==
    /\ Finished("serialize_canonical_json")
    /\ call.args.payload.wallet = 2
    /\ call.args.payload.risk_score = 100
    /\ call.args.payload.timestamp = 1737718800
    /\ call.result.val # serialize_canonical_json(AlterWallet(call.args.payload))

\* C21: a submit_risk is accepted exactly when a key is stored, the
\* signature is that key's over the payload, the timestamp is not older
\* than 300 seconds and the score is at most 100, whatever RiskState the
\* wallet has; an accepted payload becomes the wallet's state even when
\* its timestamp is older than the stored last_updated, and accepting the
\* payload that is already stored leaves every RiskState as it is.
C21_AcceptanceIgnoresStoredState ==
    [][Running("submit_risk")
       => LET p == call.args.payload
              accepted == /\ oracle.tag = "Some"
                          /\ SignedBy(p, call.args.signature, oracle.val)
                          /\ p.timestamp >= now - 300
                          /\ p.risk_score <= 100
              new_state == [risk_score |-> p.risk_score,
                            last_updated |-> p.timestamp,
                            decision |-> DecisionTable(p.risk_score)]
          IN  /\ (call'.result = Ok(Unit)) <=> accepted
              /\ accepted
                    => /\ risk'[p.wallet] = Some(new_state)
                       /\ risk[p.wallet] = Some(new_state) => risk' = risk]_vars

\* an accepted payload replaced a state with a newer timestamp
C21_Witness ==
    /\ Finished("submit_risk")
    /\ call.result = Ok(Unit)
    /\ prior[call.args.payload.wallet].tag = "Some"
    /\ prior[call.args.payload.wallet].val.last_updated
         > call.args.payload.timestamp
    /\ risk[call.args.payload.wallet].val.last_updated
         = call.args.payload.timestamp

\* C22: a successful submit_risk for a wallet leaves the RiskState, or the
\* absence of one, of every other wallet and the oracle key as they were,
\* so check_permission of every other wallet is unchanged.
C22_OtherWalletsUntouched ==
    [][(Running("submit_risk") /\ call'.result.tag = "Ok")
       => (/\ oracle' = oracle
           /\ \A w \in Wallets \ {call.args.payload.wallet} :
                /\ risk'[w] = risk[w]
                /\ check_permission(w)' = check_permission(w)
                /\ is_frozen(w)' = is_frozen(w))]_vars

\* a submission changed its wallet from frozen to allowed while the other
\* wallet stayed without a state
C22_Witness ==
    /\ Finished("submit_risk")
    /\ call.result = Ok(Unit)
    /\ prior[call.args.payload.wallet].tag = "Some"
    /\ prior[call.args.payload.wallet].val.decision = Freeze
    /\ risk[call.args.payload.wallet].val.decision = Allow
    /\ \E w \in Wallets :
        w # call.args.payload.wallet /\ prior[w] = None /\ risk[w] = None

\* C23: for every pair of u64 clock and timestamp, the subtraction of the
\* age is evaluated only when the clock is greater than the timestamp, it
\* never goes below zero and the test never panics; the test is true
\* exactly when the clock is more than 300 past the timestamp.
C23_AgeNeverUnderflows ==
    Finished("too_old")
    => LET current_time == call.args.current_time
           timestamp == call.args.timestamp
       IN  /\ call.result.subtracted => U64Gt(current_time, timestamp)
           /\ ~call.result.underflow
           /\ call.result.result.tag = "Ok"
           /\ call.result.result.val => U64Gt(current_time, timestamp)
           /\ timestamp = U64Max => ~call.result.subtracted
           /\ timestamp = U64Zero
                => (call.result.result.val
                      <=> U64Gt(current_time, <<0, 0, 0, 300>>))
           /\ (U64Small(current_time) /\ U64Small(timestamp))
                => /\ U64Gt(current_time, timestamp)
                        <=> U64ToNat(current_time) > U64ToNat(timestamp)
                   /\ call.result.result.val
                        <=> (U64ToNat(current_time) - U64ToNat(timestamp)
                               > 300
                             /\ U64ToNat(current_time) > U64ToNat(timestamp))
                   /\ call.result.result.val
                        = too_old(U64ToNat(current_time),
                                  U64ToNat(timestamp))

\* the test passed a timestamp of 2^64 - 1 at clock 0 without subtracting
C23_Witness ==
    /\ Finished("too_old")
    /\ call.args.current_time = U64Zero
    /\ call.args.timestamp = U64Max
    /\ ~call.result.subtracted
    /\ call.result.result = Ok(FALSE)

====
